---- MODULE Spec2Model ----
(***************************************************************************)
(* A model of the photo-mgmt scripts: the rename workflow (rename.py), the *)
(* reconciliation scripts (update.py, scan_image.py --update) and the      *)
(* relational store and filesystem they act on.                            *)
(*                                                                         *)
(* Text (paths, file names, answers typed by the user) is a sequence of    *)
(* one-character strings, so that splitext, basename, the rank suffix and  *)
(* SQL's text comparison are computed, not assumed.                        *)
(***************************************************************************)
EXTENDS Integers, Sequences, FiniteSets, TLC

VARIABLES
    photo,      \* the photo table as the open connection sees it
    import,     \* the import table as the open connection sees it
    committed,  \* [photo, import]: what the last COMMIT made durable
    hash,       \* the hash table: the checksums recorded
    tag,        \* the tag table: [md5hash, meta, width, height]
    fs,         \* the files on disk: a set of [path, data]
    dirs,       \* the directories on disk (absolute paths)
    now,        \* the UTC clock, in whole seconds (timespec='seconds')
    pc,         \* where the running script is
    rename,     \* the temp table "rename" of write_new (rows in rowid order)
    rn,         \* the locals of the rename script
    up,         \* the locals of the reconciliation script
    out         \* what the script has printed or written for the user

vars == <<photo, import, hash, tag, committed, fs, dirs, now, pc, rename, rn, up, out>>

None == "None"

-----------------------------------------------------------------------------
(* Text                                                                    *)

\* The characters the model uses, in ASCII order.
CharSeq ==
    << " ", "-", ".", "/", "0", "1", "2", "3", "4", "5", "6", "7", "8", "9",
       "A", "B", "E", "F", "N", "R", "T", "Y",
       "a", "b", "c", "d", "e", "f", "g", "h", "i", "j", "m", "n", "o", "s",
       "t", "u", "x", "y", "z" >>

Ord(c) == CHOOSE i \in 1..Len(CharSeq) : CharSeq[i] = c

\* str.lower() on one character.
Lower(c) ==
    CASE c = "A" -> "a" [] c = "B" -> "b" [] c = "E" -> "e" [] c = "F" -> "f"
      [] c = "N" -> "n"
      [] c = "R" -> "r" [] c = "T" -> "t" [] c = "Y" -> "y" [] OTHER -> c

LowerStr(s) == [i \in 1..Len(s) |-> Lower(s[i])]

\* str.rfind(c): the last index of c in s, 0 when there is none (1-based).
RFind(s, c) ==
    LET hits == {i \in 1..Len(s) : s[i] = c}
    IN  IF hits = {} THEN 0 ELSE CHOOSE i \in hits : \A k \in hits : k <= i

\* s.startswith(p)
StartsWith(s, p) == Len(p) <= Len(s) /\ SubSeq(s, 1, Len(p)) = p

\* str.replace(old, new) for a non-empty old: every occurrence, left to right.
RECURSIVE Replace(_, _, _)
Replace(s, old, new) ==
    IF Len(s) = 0 THEN << >>
    ELSE IF StartsWith(s, old)
         THEN new \o Replace(SubSeq(s, Len(old) + 1, Len(s)), old, new)
         ELSE <<s[1]>> \o Replace(Tail(s), old, new)

\* re.sub('^/', '', s)
StripLeadingSlash(s) == IF Len(s) > 0 /\ s[1] = "/" THEN Tail(s) ELSE s

\* s.rstrip('/')
RECURSIVE RStripSlash(_)
RStripSlash(s) ==
    IF Len(s) > 0 /\ s[Len(s)] = "/" THEN RStripSlash(SubSeq(s, 1, Len(s) - 1)) ELSE s

\* posixpath.basename
basename(p) == SubSeq(p, RFind(p, "/") + 1, Len(p))

\* posixpath.dirname: the head up to the last slash, trailing slashes
\* stripped unless the head is nothing but slashes.
dirname(p) ==
    LET head == SubSeq(p, 1, RFind(p, "/"))
    IN  IF head # << >> /\ \E i \in 1..Len(head) : head[i] # "/"
        THEN RStripSlash(head) ELSE head

\* genericpath._splitext: the index of the dot that starts the extension,
\* 0 when the name has none (a name made of leading dots has none).
ExtDot(p) ==
    LET sepIndex == RFind(p, "/")
        dotIndex == RFind(p, ".")
    IN  IF dotIndex > sepIndex
           /\ \E k \in (sepIndex + 1)..(dotIndex - 1) : p[k] # "."
        THEN dotIndex ELSE 0

\* os.path.splitext(p)[0] and [1]
splitext0(p) == IF ExtDot(p) = 0 THEN p ELSE SubSeq(p, 1, ExtDot(p) - 1)
splitext1(p) == IF ExtDot(p) = 0 THEN << >> ELSE SubSeq(p, ExtDot(p), Len(p))

\* posixpath.join(a, b)
join(a, b) ==
    IF Len(b) > 0 /\ b[1] = "/" THEN b
    ELSE IF a = << >> \/ a[Len(a)] = "/" THEN a \o b
    ELSE a \o <<"/">> \o b

\* '/'.join((a, b))
SlashJoin(a, b) == a \o <<"/">> \o b

\* os.path.normpath on paths without '.' and '..' segments: runs of slashes
\* collapse to one and a trailing slash is dropped.
RECURSIVE normpath(_)
normpath(p) ==
    IF Len(p) <= 1 THEN p
    ELSE IF p[1] = "/" /\ p[2] = "/" THEN normpath(Tail(p))
    ELSE IF Len(p) = 2 /\ p[2] = "/" THEN <<p[1]>>
    ELSE <<p[1]>> \o normpath(Tail(p))

\* re.split(r'[/\\]', s): the segments between slashes (at least one).
RECURSIVE SplitSlash(_)
SplitSlash(s) ==
    LET hits == {i \in 1..Len(s) : s[i] = "/"}
    IN  IF hits = {} THEN <<s>>
        ELSE LET i == CHOOSE k \in hits : \A m \in hits : k <= m
             IN  <<SubSeq(s, 1, i - 1)>> \o SplitSlash(SubSeq(s, i + 1, Len(s)))

\* '/'.join(parts)
RECURSIVE JoinSlash(_)
JoinSlash(parts) ==
    IF Len(parts) = 0 THEN << >>
    ELSE IF Len(parts) = 1 THEN parts[1]
    ELSE parts[1] \o <<"/">> \o JoinSlash(Tail(parts))

\* str(n) for a natural number.
RECURSIVE Str(_)
Str(n) ==
    LET d == <<CharSeq[5 + (n % 10)]>>
    IN  IF n < 10 THEN d ELSE Str(n \div 10) \o d

\* s.rjust(width, '0')
RECURSIVE rjust0(_, _)
rjust0(s, width) == IF Len(s) >= width THEN s ELSE rjust0(<<"0">> \o s, width)

\* Text comparison as the store does it (byte order, a prefix sorts first).
RECURSIVE TextLess(_, _)
TextLess(a, b) ==
    IF Len(b) = 0 THEN FALSE
    ELSE IF Len(a) = 0 THEN TRUE
    ELSE IF a[1] # b[1] THEN Ord(a[1]) < Ord(b[1])
    ELSE TextLess(Tail(a), Tail(b))

\* The texts of the finite set S as a sequence in ascending order.
RECURSIVE SortText(_)
SortText(S) ==
    IF S = {} THEN << >>
    ELSE LET m == CHOOSE x \in S : \A y \in S \ {x} : TextLess(x, y)
         IN  <<m>> \o SortText(S \ {m})

\* The elements of a sequence, as a set.
Range(s) == {s[i] : i \in 1..Len(s)}

-----------------------------------------------------------------------------
(* The Collision Resolver: write_new's rewrite of the temp table "rename"  *)

\* One row of the temp table, as executemany inserts it from a plan entry.
RenameRow(md5hash, new_path, new_base, old_path, old_base, old_fname, old_local) ==
    [md5hash |-> md5hash, new_path |-> new_path, new_base |-> new_base,
     old_path |-> old_path, old_base |-> old_base, old_fname |-> old_fname,
     old_local |-> old_local]

\* CTE dups: the new_path values that more than one row of t carries.
dups(t) ==
    {p \in {t[i].new_path : i \in 1..Len(t)} :
        Cardinality({i \in 1..Len(t) : t[i].new_path = p}) > 1}

\* A row number that follows the order of insertion, not old_path.
row_number_by_rowid(t, i) ==
    1 + Cardinality({k \in 1..Len(t) : k < i /\ t[k].new_path = t[i].new_path})

\* row_number() over (partition by new_path order by old_path) of row i.
row_number(t, i) ==
    1 + Cardinality({k \in 1..Len(t) :
            /\ k # i
            /\ t[k].new_path = t[i].new_path
            /\ \/ TextLess(t[k].old_path, t[i].old_path)
               \/ t[k].old_path = t[i].old_path /\ k < i})

\* CTE row_ordered: the rows of the collision groups, each with its rank rn,
\* in the order the window sort delivers them (by new_path, then rn).
RECURSIVE RowsInOrder(_, _)
RowsInOrder(t, I) ==
    IF I = {} THEN << >>
    ELSE LET first == CHOOSE i \in I : \A k \in I \ {i} :
                          \/ TextLess(t[i].new_path, t[k].new_path)
                          \/ /\ t[i].new_path = t[k].new_path
                             /\ row_number(t, i) < row_number(t, k)
         IN  <<[md5hash |-> t[first].md5hash, new_path |-> t[first].new_path,
                rn |-> row_number(t, first)]>> \o RowsInOrder(t, I \ {first})

row_ordered(t) == RowsInOrder(t, {i \in 1..Len(t) : t[i].new_path \in dups(t)})

\* digits = len(str(max_n)); max(rn) of no rows is None, and len('None') is 4.
digits(t) ==
    LET rows == row_ordered(t)
        rns  == {rows[i].rn : i \in 1..Len(rows)}
    IN  IF rns = {} THEN 4
        ELSE Len(Str(CHOOSE m \in rns : \A r \in rns : r <= m))

\* The new name of a colliding row: '-' and the zero-padded rank before the
\* extension.
altered_path(new_path, rank, width) ==
    splitext0(new_path) \o <<"-">> \o rjust0(Str(rank), width) \o splitext1(new_path)

\* An UPDATE that finds its rows by md5hash alone.
UpdateRename_by_hash(t, altered, h, p) ==
    [i \in 1..Len(t) |->
        IF t[i].md5hash = h THEN [t[i] EXCEPT !.new_path = altered] ELSE t[i]]

\* UPDATE rename SET new_path = altered WHERE md5hash = h AND new_path = p
UpdateRename(t, altered, h, p) ==
    [i \in 1..Len(t) |->
        IF t[i].md5hash = h /\ t[i].new_path = p
        THEN [t[i] EXCEPT !.new_path = altered] ELSE t[i]]

\* The loop over the fetched rows of row_ordered, one UPDATE per row.
RECURSIVE ApplyRanks(_, _, _)
ApplyRanks(t, rows, width) ==
    IF rows = << >> THEN t
    ELSE ApplyRanks(
            UpdateRename(t, altered_path(rows[1].new_path, rows[1].rn, width),
                         rows[1].md5hash, rows[1].new_path),
            Tail(rows), width)

\* Lines 181-211 of write_new as a whole.
ResolveCollisions(t) == ApplyRanks(t, row_ordered(t), digits(t))

-----------------------------------------------------------------------------
(* The relational store                                                    *)

\* One row of photo (path is the primary key) and one of import.
PhotoRow(path, fname, md5hash, dt_import) ==
    [path |-> path, fname |-> fname, md5hash |-> md5hash, dt_import |-> dt_import]

TagRow(md5hash, meta, width, height) ==
    [md5hash |-> md5hash, meta |-> meta, width |-> width, height |-> height]

ImportRow(import_date, base_path, local, type) ==
    [import_date |-> import_date, base_path |-> base_path, local |-> local,
     type |-> type]

\* INSERT OR IGNORE INTO import / ON CONFLICT DO NOTHING: import_date is the
\* primary key, a row whose date is taken is dropped.
InsertImport(I, row) ==
    IF \E r \in I : r.import_date = row.import_date THEN I ELSE I \cup {row}

\* UPDATE photo SET path, fname, dt_import WHERE md5hash = h AND path = old.
\* The primary key on path makes the statement fail (IntegrityError) when the
\* new path is the path of a row it does not move.
UpdatePhotoHard(P, final_path, fname, import_date, h, old) ==
    LET hit  == {r \in P : r.md5hash = h /\ r.path = old}
        rest == P \ hit
    IN  IF hit # {} /\ \E r \in rest : r.path = final_path
        THEN [err |-> "IntegrityError", photo |-> P, rowcount |-> 0]
        ELSE [err |-> None,
              photo |-> rest \cup {PhotoRow(final_path, fname, r.md5hash, import_date) :
                                      r \in hit},
              rowcount |-> Cardinality(hit)]

\* The base_path and local of the batch a photo row points to (LEFT JOIN).
ImportOf(I, r) == CHOOSE b \in I : b.import_date = r.dt_import

\* ORDER BY b.import_date, a.path
RECURSIVE PhotoByImportPath(_)
PhotoByImportPath(P) ==
    IF P = {} THEN << >>
    ELSE LET m == CHOOSE r \in P : \A q \in P \ {r} :
                      \/ r.dt_import < q.dt_import
                      \/ r.dt_import = q.dt_import /\ TextLess(r.path, q.path)
         IN  <<m>> \o PhotoByImportPath(P \ {m})

-----------------------------------------------------------------------------
(* The filesystem                                                          *)

File(path, data) == [path |-> path, data |-> data]

\* Whether path p lies under directory d.
IsUnder(p, d) == StartsWith(p, d \o <<"/">>)

\* The directories above path p (mkdir(parents=True) of dirname(p)).
RECURSIVE Parents(_)
Parents(p) ==
    LET d == dirname(p)
    IN  IF d = << >> \/ d = p \/ d = <<"/">> THEN {} ELSE {d} \cup Parents(d)

\* Path(old).rename(new) where old exists: new is replaced if it exists.
MoveFile(F, old, new) ==
    IF old = new THEN F
    ELSE LET f == CHOOSE x \in F : x.path = old
         IN  {x \in F : x.path # old /\ x.path # new} \cup {File(new, f.data)}

Thumbs == <<"t", "h", "u", "m", "b", "s", ".", "d", "b">>

\* delete_empty, first walk: a directory whose only file is a thumbs.db
\* loses it.
RemoveLoneThumbs(F, D, root) ==
    LET here(d) == {f \in F : dirname(f.path) = d}
        lone == {f \in F :
                    /\ dirname(f.path) = root \/ IsUnder(f.path, root)
                    /\ here(dirname(f.path)) = {f}
                    /\ LowerStr(basename(f.path)) = Thumbs}
    IN  F \ lone

\* delete_empty, second walk (bottom-up rmdir): every directory below root
\* that holds no file, directly or in sub-directories, is removed.
RemoveEmptyDirs(F, D, root) ==
    {d \in D : ~ (IsUnder(d, root) /\ ~ \E f \in F : IsUnder(f.path, d))}

-----------------------------------------------------------------------------
(* The Path Planner: rename_files                                          *)

\* A level is the Optional[int] of the command line: << >> is None.
\* path_split[0:level] of the old directory, joined again.
new_dir(old_dir, level) ==
    IF level = << >> THEN old_dir
    ELSE LET parts == SplitSlash(old_dir)
             n == IF level[1] < Len(parts) THEN level[1] ELSE Len(parts)
         IN  JoinSlash(SubSeq(parts, 1, n))

\* The plan entry of one photo row joined with its import row (no template:
\* out_format, match, whitespace and split_dirs are None; new_base is None).
PlanEntry(r, b, level) ==
    LET old_dir == IF b.local THEN dirname(r.path)
                   ELSE StripLeadingSlash(Replace(dirname(r.path), b.base_path, << >>))
        nd == new_dir(old_dir, level)
        new_name == r.fname
    IN  [md5hash |-> r.md5hash,
         new_base |-> b.base_path,
         old_base |-> b.base_path,
         old_path |-> r.path,
         old_local |-> b.local,
         old_name |-> r.fname,
         new_name |-> new_name,
         new_dir |-> nd,
         new_path |-> normpath(StripLeadingSlash(SlashJoin(nd, new_name))),
         new_full_path |-> normpath(SlashJoin(SlashJoin(b.base_path, nd), new_name))]

rename_files(P, I, level) ==
    LET rows == PhotoByImportPath(P)
    IN  [i \in 1..Len(rows) |-> PlanEntry(rows[i], ImportOf(I, rows[i]), level)]

\* The first generation of the script (src/rename.py): the new name is the
\* rendered template '{old_name}' followed by the lower-cased old extension,
\* and the directory keeps its leading slash.
rename_files_legacy(P, level) ==
    LET rows == SortText({r.path : r \in P})
        row(i) == CHOOSE r \in P : r.path = rows[i]
    IN  [i \in 1..Len(rows) |->
            LET r == row(i)
                new_name == r.fname \o LowerStr(splitext1(r.fname))
            IN  [md5hash |-> r.md5hash, old_path |-> r.path, old_name |-> r.fname,
                 new_name |-> new_name,
                 new_path |-> SlashJoin(new_dir(dirname(r.path), level), new_name)]]

\* executemany(isql, out_dict): the plan as rows of the temp table.
InsertPlan(out_dict) ==
    [i \in 1..Len(out_dict) |->
        RenameRow(out_dict[i].md5hash, out_dict[i].new_path, out_dict[i].new_base,
                  out_dict[i].old_path, out_dict[i].old_base, out_dict[i].old_name,
                  out_dict[i].old_local)]

-----------------------------------------------------------------------------
(* Bounds and the inputs drawn from them                                   *)

\* The largest plan handed to the Collision Resolver on its own.
MaxPlan == 3

Hashes == {"x", "y"}

\* Recorded (old) paths and proposed (new) paths of the plans.
ResolveOldPaths ==
    { <<"A", "/", "i", ".", "j">>, <<"B", "/", "i", ".", "j">>,
      <<"i", "-", "1", ".", "j">>, <<"c", ".", "j">> }

ResolveNewPaths ==
    { <<"i", ".", "j">>, <<"i", "-", "1", ".", "j">>, <<"i">> }

ResolveRows ==
    { RenameRow(h, np, <<"/", "R">>, op, <<"/", "R">>, basename(op), TRUE) :
        h \in Hashes, np \in ResolveNewPaths, op \in ResolveOldPaths }

\* Every plan of at most MaxPlan entries; photo.path is the primary key, so
\* the entries of a plan have distinct old paths.
ResolvePlans ==
    UNION { { t \in [1..n -> ResolveRows] :
                \A i, k \in 1..n : i # k => t[i].old_path # t[k].old_path } :
            n \in 1..MaxPlan }

\* A rename run that has not started.
RnIdle ==
    [gen |-> None, level |-> << >>, test |-> None, rm_empty |-> FALSE, dict_list |-> << >>,
     start |-> None, answered |-> FALSE, ask |-> << >>, go |-> FALSE, import_date |-> 0, updated |-> 0, updated0 |-> 0, bases |-> {},
     base_path |-> << >>, rows |-> << >>, i |-> 0, last |-> [outcome |-> None],
     err |-> None]

\* A reconciliation run that has not started.
UpIdle ==
    [gen |-> None, backend |-> None, local |-> FALSE, hashed |-> << >>,
     hashed_iter |-> << >>, import_date |-> 0, rows |-> << >>, i |-> 0, count |-> 0,
     used |-> << >>, start |-> None, err |-> None, failed |-> {}]

\* Everything outside the temp table, at rest.
AtRest ==
    /\ photo = {} /\ import = {} /\ committed = [photo |-> {}, import |-> {}]
    /\ hash = {} /\ tag = {}
    /\ fs = {} /\ dirs = {} /\ now = 0
    /\ rn = RnIdle /\ up = UpIdle /\ out = << >>

InitResolve == AtRest /\ pc = "plan" /\ rename \in ResolvePlans

\* write_new from the insert of the plan to the commit of the resolved names.
\* The plan as inserted is kept in out.
ResolvePlan ==
    /\ pc = "plan"
    /\ rename' = ResolveCollisions(rename)
    /\ out' = Append(out, [ev |-> "plan", plan |-> rename])
    /\ pc' = "resolved"
    /\ UNCHANGED <<hash, tag, photo, import, committed, fs, dirs, now, rn, up>>

\* The same lines of write_new on a plan that is their own output.
ResolveAgain ==
    /\ pc = "resolved"
    /\ rename' = ResolveCollisions(rename)
    /\ out' = Append(out, [ev |-> "plan", plan |-> rename])
    /\ pc' = "resolved_again"
    /\ UNCHANGED <<hash, tag, photo, import, committed, fs, dirs, now, rn, up>>

NextResolve == ResolvePlan \/ ResolveAgain

SpecResolve == InitResolve /\ [][NextResolve]_vars

-----------------------------------------------------------------------------
(* The Path Planner: the file name from a template                         *)

\* The first index of character c in s, 0 when there is none.
Find(s, c) ==
    LET hits == {i \in 1..Len(s) : s[i] = c}
    IN  IF hits = {} THEN 0 ELSE CHOOSE i \in hits : \A k \in hits : i <= k

\* The value of one replacement field of str.format(**vd): the fields of vd
\* the model carries, a format spec '0<w>' on the integers; any other name
\* is a KeyError.
FieldValue(name, fmt, vd) ==
    LET int(n) == IF Len(fmt) = 2 /\ fmt[1] = "0"
                  THEN rjust0(Str(n), Ord(fmt[2]) - 5) ELSE Str(n)
    IN  IF name = <<"y", "e", "a", "r">> THEN [err |-> None, text |-> int(vd.year)]
        ELSE IF name = <<"m", "o", "n", "t", "h">> THEN [err |-> None, text |-> int(vd.month)]
        ELSE IF name = <<"o", "l", "d", "_", "n", "a", "m", "e">>
        THEN [err |-> None, text |-> vd.old_name]
        ELSE IF name = <<"m", "d", "5", "h", "a", "s", "h">>
        THEN [err |-> None, text |-> vd.md5hash]
        ELSE [err |-> "KeyError", text |-> << >>]

\* out_format.format(**vd) for templates of literal text and {name} or
\* {name:spec} fields.
RECURSIVE Format(_, _)
Format(tpl, vd) ==
    IF tpl = << >> THEN [err |-> None, text |-> << >>]
    ELSE IF tpl[1] = "{"
    THEN LET close == Find(tpl, "}")
             field == SubSeq(tpl, 2, close - 1)
             colon == Find(field, ":")
             name  == IF colon = 0 THEN field ELSE SubSeq(field, 1, colon - 1)
             fmt   == IF colon = 0 THEN << >> ELSE SubSeq(field, colon + 1, Len(field))
             val   == FieldValue(name, fmt, vd)
             rest  == Format(SubSeq(tpl, close + 1, Len(tpl)), vd)
         IN  IF val.err # None THEN val
             ELSE IF rest.err # None THEN rest
             ELSE [err |-> None, text |-> val.text \o rest.text]
    ELSE LET rest == Format(Tail(tpl), vd)
         IN  IF rest.err # None THEN rest
             ELSE [err |-> None, text |-> <<tpl[1]>> \o rest.text]

\* rename_files, lines 95-104: vd['new_name']. out_format is << >> for None.
new_name(out_format, vd) ==
    IF out_format # << >>
    THEN LET old_ext == splitext1(vd.old_name)
             new_ext == splitext1(out_format)
             out_ext == IF new_ext # << >> THEN << >> ELSE old_ext
             f == Format(out_format, vd)
         IN  IF f.err # None THEN f ELSE [err |-> None, text |-> f.text \o out_ext]
    ELSE [err |-> None, text |-> vd.old_name]

\* The same step in the earlier generation of the script (photo-mgmt).
new_name_middle(out_format, vd) ==
    IF out_format # << >>
    THEN LET old_ext == splitext1(vd.old_name)
             f == Format(out_format, vd)
         IN  IF f.err # None THEN f
             ELSE [err |-> None, text |-> f.text \o LowerStr(old_ext)]
    ELSE [err |-> None, text |-> vd.old_name]

\* Templates of --rename_string, file names and capture dates of the records.
Templates ==
    { <<"{", "y", "e", "a", "r", "}", "/", "{", "m", "o", "n", "t", "h", ":", "0", "2", "}",
        "_", "{", "o", "l", "d", "_", "n", "a", "m", "e", "}">>,
      <<"{", "y", "e", "a", "r", "}", "/", "{", "m", "o", "n", "t", "h", ":", "0", "2", "}",
        "_", "{", "o", "r", "i", "g", "i", "n", "a", "l", "_", "n", "a", "m", "e", "}">>,
      <<"{", "m", "d", "5", "h", "a", "s", "h", "}">>,
      <<"{", "m", "d", "5", "h", "a", "s", "h", "}", ".", "j">>,
      <<"{", "o", "l", "d", "_", "n", "a", "m", "e", "}">>,
      <<"s", "_", "{", "m", "o", "n", "t", "h", "}">>,
      << >> }

TemplateNames ==
    { <<"I", "M", "G", "_", "0", "0", "1", ".", "j", "p", "g">>,
      <<"d", ".", "N", "E", "F">>, <<"a", ".", "j">>, <<"b">>, <<"c", ".", "t", ".", "j">> }

TemplateMonths == {6, 12}

InitTemplate ==
    /\ AtRest /\ rename = << >> /\ pc = "template"

\* One pass of the loop of rename_files for a record and a template, in the
\* current and in the earlier generation of the script.
PlanName ==
    /\ pc = "template"
    /\ \E tpl \in Templates, name \in TemplateNames, month \in TemplateMonths,
          gen \in {"pkg", "middle"} :
        LET vd == [old_name |-> name, year |-> 2021, month |-> month, md5hash |-> <<"x">>]
        IN  out' = <<[ev |-> "new_name", gen |-> gen, out_format |-> tpl, vd |-> vd,
                      new_name |-> IF gen = "pkg" THEN new_name(tpl, vd)
                                   ELSE new_name_middle(tpl, vd)]>>
    /\ pc' = "named"
    /\ UNCHANGED <<hash, tag, photo, import, committed, fs, dirs, now, rename, rn, up>>

NextTemplate == PlanName

SpecTemplate == InitTemplate /\ [][NextTemplate]_vars

-----------------------------------------------------------------------------
(* The rename workflow: rename.py                                          *)

\* random.sample(out_dict, 5) in confirm_write.
SampleSize == 5

\* The most optional files a library of the rename runs holds beside its
\* fixed ones.
MaxOptional == 3

Base == <<"/", "R">>

InBase(rel) == Base \o <<"/">> \o rel

\* Files every library holds, and files it may hold: two photos of the same
\* name in two folders (copies of one photo, or two photos), a photo that
\* already carries a rank suffix, and a copy of c.j in a folder.
FixedFiles ==
    { File(InBase(<<"c", ".", "j">>), "c"), File(InBase(<<"d", ".", "j">>), "d"),
      File(InBase(<<"e", ".", "j">>), "e") }

OptionalFiles ==
    { File(InBase(<<"A", "/", "i", ".", "j">>), "x"),
      File(InBase(<<"B", "/", "i", ".", "j">>), "x"),
      File(InBase(<<"B", "/", "i", ".", "j">>), "y"),
      File(InBase(<<"i", "-", "1", ".", "j">>), "z"),
      File(InBase(<<"B", "/", "c", ".", "j">>), "c") }

\* A filesystem holds one file per path.
OnePerPath(F) == \A f, g \in F : f.path = g.path => f = g

Libraries ==
    { FixedFiles \cup S : S \in { T \in SUBSET OptionalFiles :
                                    OnePerPath(T) /\ Cardinality(T) <= MaxOptional } }

\* Files on disk that the store does not know: a lone thumbs.db in a folder
\* and, possibly, a file that is no photo.
ThumbsFile == File(InBase(<<"T", "/", "T", "h", "u", "m", "b", "s", ".", "d", "b">>), "t")

Untracked == { {}, {File(InBase(<<"i", "-", "2", ".", "j">>), "u")} }

AllDirs ==
    { Base, InBase(<<"A">>), InBase(<<"B">>), InBase(<<"E">>), InBase(<<"T">>) }

\* What the user can type at the prompt.
Answers ==
    { << >>, <<"y">>, <<"Y", "e", "s">>, <<"n">>, <<" ", "y">> }

Levels == { << >>, <<0>> }

Tests == { None, "stdout", "file" }

\* A library that a scan at second 1 has recorded whole, with local paths or
\* full ones.
InitRename ==
    \E L \in Libraries, U \in Untracked, local \in BOOLEAN :
        LET stored(f) == IF local THEN StripLeadingSlash(Replace(f.path, Base, << >>))
                         ELSE f.path
            P == {PhotoRow(stored(f), basename(f.path), f.data, 1) : f \in L}
            I == {ImportRow(1, Base, local, "import")}
        IN  /\ photo = P /\ import = I /\ committed = [photo |-> P, import |-> I]
            /\ hash = {r.md5hash : r \in P}
            /\ tag = {TagRow(r.md5hash, None, None, None) : r \in P}
            /\ fs = L \cup U \cup {ThumbsFile}
            /\ dirs = AllDirs
            /\ now = 1 /\ pc = "idle" /\ rename = << >>
            /\ rn = RnIdle /\ up = UpIdle /\ out = << >>

\* The store as committed and the filesystem, as a run finds them.
Snapshot ==
    [photo |-> committed.photo, import |-> committed.import, fs |-> fs, dirs |-> dirs]

\* A prompt that takes any answer at all for a yes.
go_of_any_answer(ask) == ask # << >>

\* confirm_write's reading of the answer.
go_of(ask) == IF ask # << >> THEN Lower(ask[1]) = "y" ELSE FALSE

\* The script dies on an uncaught exception: the connection's uncommitted
\* work is lost.
Crash(exc) ==
    /\ pc' = "crashed"
    /\ photo' = committed.photo /\ import' = committed.import
    /\ out' = Append(out, [ev |-> "error", exc |-> exc])

\* __main__ and test_check up to the prompt: the plan is computed; a dry run
\* emits it and ends; a real run prints five random examples and asks.
rename_main ==
    /\ pc = "idle"
    /\ \E level \in Levels, test \in Tests, rm_empty \in BOOLEAN :
        LET plan == rename_files(photo, import, level)
            rn1  == [RnIdle EXCEPT !.gen = "pkg", !.level = level, !.test = test,
                                   !.rm_empty = rm_empty, !.dict_list = plan,
                                   !.start = Snapshot]
        IN  IF test # None
            THEN /\ rn' = rn1
                 /\ out' = Append(out, [ev |-> "plan", to |-> test, plan |-> plan])
                 /\ pc' = "done"
                 /\ UNCHANGED <<hash, tag, photo, import, committed, fs, dirs, now, rename, up>>
            ELSE IF Len(plan) < SampleSize
            THEN /\ rn' = [rn1 EXCEPT !.err = "ValueError"]
                 /\ Crash("ValueError")
                 /\ UNCHANGED <<hash, tag, committed, fs, dirs, now, rename, up>>
            ELSE /\ rn' = rn1
                 /\ pc' = "ask"
                 /\ UNCHANGED <<hash, tag, photo, import, committed, fs, dirs, now, rename, up, out>>

\* confirm_write from the prompt on, and test_check's branch on its result.
confirm_write ==
    /\ pc = "ask"
    /\ \E ask \in Answers :
        /\ rn' = [rn EXCEPT !.answered = TRUE, !.ask = ask, !.go = go_of(ask)]
        /\ IF go_of(ask)
           THEN pc' = "write_new" /\ out' = out
           ELSE pc' = "done" /\ out' = Append(out, [ev |-> "skipping"])
    /\ UNCHANGED <<hash, tag, photo, import, committed, fs, dirs, now, rename, up>>

\* write_new, lines 153-215: the plan goes into the temp table and the
\* Collision Resolver rewrites it.
write_new ==
    /\ pc = "write_new"
    /\ rename' = ResolveCollisions(InsertPlan(rn.dict_list))
    /\ rn' = [rn EXCEPT !.bases = {rn.dict_list[i].new_base : i \in 1..Len(rn.dict_list)},
                        !.updated = 0]
    /\ pc' = "base"
    /\ UNCHANGED <<hash, tag, photo, import, committed, fs, dirs, now, up, out>>

\* Lines 216-224: the batch row of the next base is inserted and committed,
\* and the rows of that base are fetched.
write_new_base ==
    /\ pc = "base"
    /\ IF rn.bases = {}
       THEN /\ pc' = IF rn.rm_empty THEN "rm_empty" ELSE "done"
            /\ UNCHANGED <<hash, tag, photo, import, committed, fs, dirs, now, rename, rn, up, out>>
       ELSE \E base_path \in rn.bases, t \in {now, now + 1} :
            LET idx == {i \in 1..Len(rename) : rename[i].new_base = base_path}
                pick[k \in 0..Len(rename)] ==
                    IF k = 0 THEN << >>
                    ELSE IF k \in idx THEN Append(pick[k - 1], rename[k]) ELSE pick[k - 1]
            IN  /\ now' = t
                /\ import' = InsertImport(import, ImportRow(t, base_path, FALSE, "rename"))
                /\ committed' = [photo |-> photo, import |-> import']
                /\ rn' = [rn EXCEPT !.bases = @ \ {base_path}, !.base_path = base_path,
                                    !.import_date = t, !.rows = pick[Len(rename)], !.i = 1,
                                    !.updated0 = rn.updated]
                /\ pc' = "move"
                /\ UNCHANGED <<hash, tag, photo, fs, dirs, rename, up, out>>

\* What the try block of one plan row can do.
Outcomes == {"mkdir_fails", "rename_fails", "moved"}

old_fullpath(row) ==
    IF row.old_local THEN normpath(join(row.old_base, row.old_path))
    ELSE normpath(row.old_path)

new_fullpath(row, base_path) == normpath(join(base_path, row.new_path))

\* A loop body without the else: the record is updated whether or not the
\* file has moved.
MoveEntry_no_else(st, row, base_path, import_date, local, outcome) ==
    LET old == old_fullpath(row)
        new == new_fullpath(row, base_path)
        final_path == IF local THEN row.new_path
                      ELSE row.new_base \o <<"/">> \o row.new_path
        u == UpdatePhotoHard(st.photo, final_path, basename(row.new_path), import_date,
                             row.md5hash, row.old_path)
        cannot == [ev |-> "cannot_rename", old |-> old, new |-> new]
    IN  IF outcome = "moved"
        THEN [st EXCEPT !.dirs = @ \cup Parents(new), !.fs = MoveFile(@, old, new),
                        !.photo = u.photo, !.updated = @ + u.rowcount, !.err = u.err]
        ELSE [st EXCEPT !.out = Append(@, cannot),
                        !.photo = u.photo, !.updated = @ + u.rowcount, !.err = u.err]

\* Lines 225-247 for one row of the temp table: the try block, with the
\* given outcome, then the except branch or the else branch. st holds the
\* connection's view of photo, the filesystem, the running count and the
\* output; err is the exception that leaves the loop, if any.
MoveEntry(st, row, base_path, import_date, local, outcome) ==
    LET old == old_fullpath(row)
        new == new_fullpath(row, base_path)
        final_path == IF local THEN row.new_path
                      ELSE row.new_base \o <<"/">> \o row.new_path
        u == UpdatePhotoHard(st.photo, final_path, basename(row.new_path), import_date,
                             row.md5hash, row.old_path)
        cannot == [ev |-> "cannot_rename", old |-> old, new |-> new]
    IN  CASE outcome = "mkdir_fails" ->
                [st EXCEPT !.out = Append(@, cannot)]
          [] outcome = "rename_fails" ->
                [st EXCEPT !.dirs = @ \cup Parents(new), !.out = Append(@, cannot)]
          [] OTHER ->
                [st EXCEPT !.dirs = @ \cup Parents(new),
                           !.fs = MoveFile(@, old, new),
                           !.photo = u.photo,
                           !.updated = @ + u.rowcount,
                           !.err = u.err]

\* One pass of the loop over the rows of a base. A move can succeed only
\* when the source file exists; a successful update is committed at once, a
\* failing one leaves the script with IntegrityError.
write_new_move ==
    /\ pc = "move"
    /\ rn.i <= Len(rn.rows)
    /\ \E outcome \in Outcomes :
        LET row == rn.rows[rn.i]
            st  == [photo |-> photo, fs |-> fs, dirs |-> dirs, updated |-> rn.updated,
                    out |-> out, err |-> None]
            nx  == MoveEntry(st, row, rn.base_path, rn.import_date, FALSE, outcome)
        IN  /\ outcome = "moved" => \E f \in fs : f.path = old_fullpath(row)
            /\ fs' = nx.fs /\ dirs' = nx.dirs
            /\ rn' = [rn EXCEPT !.i = @ + 1, !.updated = nx.updated, !.err = nx.err,
                                !.last = [outcome |-> outcome, row |-> row,
                                          import_date |-> rn.import_date,
                                          before |-> [photo |-> photo, fs |-> fs,
                                                      committed |-> committed]]]
            /\ IF nx.err # None
               THEN /\ Crash(nx.err)
                    /\ UNCHANGED committed
               ELSE /\ photo' = nx.photo /\ import' = import /\ out' = nx.out
                    /\ committed' = IF outcome = "moved"
                                    THEN [photo |-> nx.photo, import |-> import]
                                    ELSE committed
                    /\ pc' = "move"
    /\ UNCHANGED <<hash, tag, now, rename, up>>

\* Lines 255-258, after the rows of a base: with nothing updated so far the
\* DELETE is executed without its parameter and raises.
write_new_base_end ==
    /\ pc = "move"
    /\ rn.i > Len(rn.rows)
    /\ IF rn.updated = 0
       THEN /\ rn' = [rn EXCEPT !.err = "ProgrammingError"]
            /\ Crash("ProgrammingError")
            /\ UNCHANGED <<hash, tag, committed, fs, dirs, now, rename, up>>
       ELSE /\ pc' = "base"
            /\ out' = Append(out, [ev |-> "updated", n |-> rn.updated])
            /\ UNCHANGED <<hash, tag, photo, import, committed, fs, dirs, now, rename, rn, up>>

\* delete_empty over every old_base of the plan.
RECURSIVE delete_empty(_, _)
delete_empty(st, bases) ==
    IF bases = {} THEN st
    ELSE LET b  == CHOOSE x \in bases : TRUE
             F1 == RemoveLoneThumbs(st.fs, st.dirs, b)
         IN  delete_empty([fs |-> F1, dirs |-> RemoveEmptyDirs(F1, st.dirs, b)],
                          bases \ {b})

\* test_check's rm_empty branch after write_new has returned.
test_check_rm_empty ==
    /\ pc = "rm_empty"
    /\ LET st == delete_empty([fs |-> fs, dirs |-> dirs],
                              {rn.dict_list[i].old_base : i \in 1..Len(rn.dict_list)})
       IN  fs' = st.fs /\ dirs' = st.dirs
    /\ pc' = "done"
    /\ UNCHANGED <<hash, tag, photo, import, committed, now, rename, rn, up, out>>

\* The first generation's __main__ (src/rename.py): with --test the plan is
\* written out, without it write_new is called with a keyword it does not
\* have (TypeError); then delete_empty runs when -e and -b are given.
legacy_main ==
    /\ pc = "idle"
    /\ \E level \in Levels, test \in Tests, e \in BOOLEAN, base \in {None, "given"} :
        LET plan == rename_files_legacy(photo, level)
            rn1  == [RnIdle EXCEPT !.gen = "legacy", !.level = level, !.test = test,
                                   !.rm_empty = e, !.dict_list = plan,
                                   !.start = Snapshot]
            st   == IF e /\ base # None
                    THEN delete_empty([fs |-> fs, dirs |-> dirs], {Base})
                    ELSE [fs |-> fs, dirs |-> dirs]
        IN  IF test # None
            THEN /\ rn' = rn1
                 /\ out' = Append(out, [ev |-> "plan", to |-> test, plan |-> plan])
                 /\ fs' = st.fs /\ dirs' = st.dirs
                 /\ pc' = "done"
                 /\ UNCHANGED <<hash, tag, photo, import, committed, now, rename, up>>
            ELSE /\ rn' = [rn1 EXCEPT !.err = "TypeError"]
                 /\ Crash("TypeError")
                 /\ UNCHANGED <<hash, tag, committed, fs, dirs, now, rename, up>>

NextRename ==
    \/ rename_main
    \/ confirm_write
    \/ write_new
    \/ write_new_base
    \/ write_new_move
    \/ write_new_base_end
    \/ test_check_rm_empty
    \/ legacy_main

SpecRename == InitRename /\ [][NextRename]_vars

\* C1: after the Collision Resolver has run on a plan, no two entries of the
\* plan have the same new_path.
C1_UniqueNewPath ==
    pc = "resolved" =>
        \A i, k \in 1..Len(rename) : i # k => rename[i].new_path # rename[k].new_path

-----------------------------------------------------------------------------
(* Reconciliation: update.py and scan_image.py --update                    *)

\* The most records the store of a reconciliation run holds.
MaxRecords == 4

\* Records a scan at second 1 can have made: two copies of one photo in two
\* folders, two other photos, and a photo whose content could not be read
\* (read_file gives it no hash and process_results records it all the same).
RecordPool ==
    { PhotoRow(InBase(<<"A", "/", "i", ".", "j">>), <<"i", ".", "j">>, "x", 1),
      PhotoRow(InBase(<<"B", "/", "i", ".", "j">>), <<"i", ".", "j">>, "x", 1),
      PhotoRow(InBase(<<"c", ".", "j">>), <<"c", ".", "j">>, "z", 1),
      PhotoRow(InBase(<<"d", ".", "j">>), <<"d", ".", "j">>, "d", 1),
      PhotoRow(InBase(<<"e", ".", "j">>), <<"e", ".", "j">>, None, 1) }

\* Where the file of a record can be when the run starts: where it was
\* recorded, moved by hand to another place, or gone.
Gone == << >>

MovedTo(path) ==
    IF path = InBase(<<"A", "/", "i", ".", "j">>)
    THEN {InBase(<<"A", "2", "/", "i", ".", "j">>)}
    ELSE IF path = InBase(<<"B", "/", "i", ".", "j">>)
    THEN {InBase(<<"B", "2", "/", "i", ".", "j">>)}
    ELSE IF path = InBase(<<"c", ".", "j">>)
    THEN {InBase(<<"d", ".", "j">>)}
    ELSE {}

Fates(r) == IF r.md5hash = None THEN {Gone} ELSE {r.path, Gone} \cup MovedTo(r.path)

InitUpdate ==
    \E P \in SUBSET RecordPool :
        /\ P # {} /\ Cardinality(P) <= MaxRecords
        /\ \E fate \in [P -> UNION {Fates(r) : r \in P}] :
            /\ \A r \in P : fate[r] \in Fates(r)
            /\ \A r, q \in P : (r # q /\ fate[r] # Gone) => fate[r] # fate[q]
            /\ fs = {File(fate[r], r.md5hash) : r \in {q \in P : fate[q] # Gone}}
        /\ LET I == {ImportRow(1, Base, FALSE, "import")}
           IN  /\ photo = P /\ import = I /\ committed = [photo |-> P, import |-> I]
               /\ hash = {r.md5hash : r \in P}
               /\ tag = {TagRow(r.md5hash, None, None, None) : r \in P}
        /\ dirs = {} /\ now = 1 /\ pc = "idle" /\ rename = << >>
        /\ rn = RnIdle /\ up = UpIdle /\ out = << >>

\* Every order in which a walk can list a set of files.
RECURSIVE Perms(_)
Perms(S) ==
    IF S = {} THEN {<< >>}
    ELSE UNION {{<<x>> \o q : q \in Perms(S \ {x})} : x \in S}

\* re.sub(r'^[\\/]', '', full_path.replace(scan_path, ''))
local_path(full_path, scan_path) ==
    StripLeadingSlash(Replace(full_path, scan_path, << >>))

\* What can go wrong with one file of the walk: open() raises, or read()
\* does.
HashFailures == {"open", "read"}

\* hash_files: one (md5 checksum, full path, local path) per file under the
\* scanned path, in the order of the walk. A file whose read() fails is
\* listed with no checksum (hashlib.md5(None) raises and is caught as well);
\* open() is outside the try blocks, so a file that cannot be opened ends
\* the script with the files before it hashed and the rest not looked at.
hash_files ==
    /\ pc = "idle"
    /\ LET files == {f \in fs : IsUnder(f.path, Base)}
       IN  \E walk \in Perms(files), bad \in {S \in SUBSET files : Cardinality(S) <= 1},
              mode \in HashFailures :
            LET hashed == [k \in 1..Len(walk) |->
                             [md5 |-> IF walk[k] \in bad THEN None ELSE walk[k].data,
                              full_path |-> walk[k].path,
                              local_path |-> local_path(walk[k].path, Base)]]
                up1 == [UpIdle EXCEPT !.gen = "update_db", !.start = Snapshot,
                                      !.failed = {f.path : f \in bad}]
                k0  == CHOOSE k \in 1..Len(walk) : walk[k] \in bad
            IN  IF bad # {} /\ mode = "open"
                THEN /\ up' = [up1 EXCEPT !.hashed = SubSeq(hashed, 1, k0 - 1),
                                          !.err = "OSError"]
                     /\ out' = Append(out, [ev |-> "error", exc |-> "OSError"])
                     /\ pc' = "crashed"
                ELSE /\ up' = [up1 EXCEPT !.hashed = hashed]
                     /\ out' = out
                     /\ pc' = "hashed"
    /\ UNCHANGED <<hash, tag, photo, import, committed, fs, dirs, now, rename, rn>>

\* ORDER BY b.base_path, a.path
RECURSIVE PhotoByBasePath(_, _)
PhotoByBasePath(P, I) ==
    IF P = {} THEN << >>
    ELSE LET bp(r) == ImportOf(I, r).base_path
             m == CHOOSE r \in P : \A q \in P \ {r} :
                      \/ TextLess(bp(r), bp(q))
                      \/ bp(r) = bp(q) /\ TextLess(r.path, q.path)
         IN  <<m>> \o PhotoByBasePath(P \ {m}, I)

\* update_db, lines 56-80: the batch row is inserted (not yet committed) and
\* the photo rows are fetched in order.
update_db_begin ==
    /\ pc = "hashed"
    /\ \E local \in BOOLEAN, t \in {now, now + 1} :
        /\ now' = t
        /\ import' = InsertImport(import, ImportRow(t, Base, local, "update"))
        /\ up' = [up EXCEPT !.local = local, !.hashed_iter = up.hashed,
                            !.import_date = t, !.rows = PhotoByBasePath(photo, import'),
                            !.i = 1, !.count = 0]
    /\ pc' = "rows"
    /\ UNCHANGED <<hash, tag, photo, committed, fs, dirs, rename, rn, out>>

\* UPDATE photo SET path, fname, dt_import WHERE path = old, under the
\* primary key on path.
UpdatePhotoByPath(P, store_path, fname, import_date, old) ==
    LET hit  == {r \in P : r.path = old}
        rest == P \ hit
    IN  IF hit # {} /\ \E r \in rest : r.path = store_path
        THEN [err |-> "IntegrityError", photo |-> P, rowcount |-> 0]
        ELSE [err |-> None,
              photo |-> rest \cup {PhotoRow(store_path, fname, r.md5hash, import_date) :
                                      r \in hit},
              rowcount |-> Cardinality(hit)]

\* The sequence s without its k-th element (list.pop(k)).
Pop(s, k) == SubSeq(s, 1, k - 1) \o SubSeq(s, k + 1, Len(s))

\* The index of the first entry of hashed_iter with the given hash, 0 when
\* there is none (md5hash in hash_list, hash_list.index(md5hash)).
IndexOf(hashed_iter, h) ==
    LET idxs == {k \in 1..Len(hashed_iter) : hashed_iter[k].md5 = h}
    IN  IF idxs = {} THEN 0 ELSE CHOOSE k \in idxs : \A m \in idxs : k <= m

\* A loop body that does not pop the entry it has used.
UpdateRow_no_pop(st, row, local, import_date) ==
    LET idx == IndexOf(st.hashed_iter, row.md5hash)
        e   == st.hashed_iter[idx]
        store_path == IF local THEN e.local_path ELSE e.full_path
        u   == UpdatePhotoByPath(st.photo, store_path, basename(e.full_path), import_date,
                                 row.path)
    IN  IF idx = 0 THEN st
        ELSE [st EXCEPT !.photo = u.photo, !.err = u.err,
                        !.count = @ + u.rowcount,
                        !.used = Append(@, [old |-> row.path, md5hash |-> row.md5hash,
                                            fresh |-> e.full_path, path |-> store_path])]

\* update_db, lines 81-102, for one photo row: the first fresh entry with
\* the row's hash gives the row its path and is popped.
UpdateRow(st, row, local, import_date) ==
    LET idx == IndexOf(st.hashed_iter, row.md5hash)
        e   == st.hashed_iter[idx]
        store_path == IF local THEN e.local_path ELSE e.full_path
        u   == UpdatePhotoByPath(st.photo, store_path, basename(e.full_path), import_date,
                                 row.path)
    IN  IF idx = 0 THEN st
        ELSE [st EXCEPT !.photo = u.photo, !.err = u.err,
                        !.hashed_iter = IF u.err = None THEN Pop(@, idx) ELSE @,
                        !.count = @ + u.rowcount,
                        !.used = Append(@, [old |-> row.path, md5hash |-> row.md5hash,
                                            fresh |-> e.full_path, path |-> store_path])]

update_db_row ==
    /\ pc = "rows"
    /\ up.i <= Len(up.rows)
    /\ LET st == [photo |-> photo, hashed_iter |-> up.hashed_iter, count |-> up.count,
                  used |-> up.used, err |-> None]
           nx == UpdateRow(st, up.rows[up.i], up.local, up.import_date)
       IN  /\ up' = [up EXCEPT !.i = @ + 1, !.hashed_iter = nx.hashed_iter,
                               !.count = nx.count, !.used = nx.used, !.err = nx.err]
           /\ IF nx.err # None
              THEN Crash(nx.err)
              ELSE /\ photo' = nx.photo
                   /\ pc' = "rows"
                   /\ UNCHANGED <<hash, tag, import, out>>
    /\ UNCHANGED <<hash, tag, committed, fs, dirs, now, rename, rn>>

\* DELETE FROM import WHERE import_date = t, with ON DELETE CASCADE on
\* photo.dt_import; the trigger delete_hash then deletes every hash no photo
\* has any more, and ON DELETE CASCADE on tag.md5hash its tag row.
DeleteImport(st, t) ==
    LET P == {r \in st.photo : r.dt_import # t}
        H == IF P = st.photo THEN st.hash
             ELSE {h \in st.hash : \E r \in P : r.md5hash = h}
    IN  [photo  |-> P,
         import |-> {b \in st.import : b.import_date # t},
         hash   |-> H,
         tag    |-> {g \in st.tag : g.md5hash \in H}]

\* update_db, lines 103-107: with nothing counted the batch row is deleted;
\* then the one commit of the run.
update_db_end ==
    /\ pc = "rows"
    /\ up.i > Len(up.rows)
    /\ LET st == [photo |-> photo, import |-> import, hash |-> hash, tag |-> tag]
           nx == IF up.count = 0 THEN DeleteImport(st, up.import_date) ELSE st
       IN  /\ photo' = nx.photo /\ import' = nx.import
           /\ hash' = nx.hash /\ tag' = nx.tag
           /\ committed' = [photo |-> nx.photo, import |-> nx.import]
    /\ out' = Append(out, [ev |-> "rows_affected", n |-> up.count])
    /\ pc' = "done"
    /\ UNCHANGED <<fs, dirs, now, rename, rn, up>>

\* A query that gives the path column as it is stored.
get_existing_stored(P, I) ==
    {r.path : r \in {q \in P : \E b \in I : b.import_date = q.dt_import}}

\* get_existing: the full path of every photo row that has an import row.
get_existing(P, I) ==
    {IF ImportOf(I, r).local THEN ImportOf(I, r).base_path \o <<"/">> \o r.path ELSE r.path :
        r \in {q \in P : \E b \in I : b.import_date = q.dt_import}}

\* write_results with update_path, the executemany over simple_results:
\* UPDATE photo SET path, fname, dt_import WHERE md5hash = h, one result
\* after the other.
RECURSIVE UpdateSimple(_, _, _)
UpdateSimple(st, results, simple) ==
    IF results = << >> \/ st.err # None THEN st
    ELSE LET x   == Head(results)
             hit == {r \in st.photo : r.md5hash = x.md5hash}
             clash == \E r \in st.photo \ hit : r.path = x.path
             nx  == IF x.md5hash \notin simple THEN st
                    ELSE IF clash THEN [st EXCEPT !.err = "IntegrityError"]
                    ELSE [st EXCEPT
                            !.photo = (@ \ hit) \cup
                                      {PhotoRow(x.path, x.fname, x.md5hash, x.dt_import)},
                            !.count = @ + Cardinality(hit),
                            !.used = @ \o [k \in 1..Cardinality(hit) |->
                                            [old |-> (CHOOSE r \in hit : TRUE).path,
                                             md5hash |-> x.md5hash,
                                             fresh |-> x.full_path, path |-> x.path]]]
         IN  UpdateSimple(nx, Tail(results), simple)

\* capture_meta with update=True and no chunk size: the batch row is
\* committed, the files not yet recorded are read, and write_results updates
\* the rows whose hash has one record; an exception ends the script with
\* the batch row committed and the updates lost. On SQLite the first statement of the
\* update branch is not valid SQL; the hashes with several records are never
\* updated (hard_results is always empty).
capture_meta_update ==
    /\ pc = "idle"
    /\ \E backend \in {"sqlite", "pg"}, local \in BOOLEAN, t \in {now, now + 1} :
        LET I1 == InsertImport(import, ImportRow(t, Base, local, "update"))
            all_files == {f \in fs : IsUnder(f.path, Base) /\ f.path \notin get_existing(photo, I1)}
        IN  \E walk \in Perms(all_files) :
            LET results == [k \in 1..Len(walk) |->
                              [path |-> IF local THEN local_path(walk[k].path, Base)
                                        ELSE walk[k].path,
                               full_path |-> walk[k].path,
                               fname |-> basename(walk[k].path),
                               md5hash |-> walk[k].data, dt_import |-> t]]
                temp_hashes == {results[k].md5hash : k \in 1..Len(results)}
                simple == {h \in temp_hashes :
                              Cardinality({r \in photo : r.md5hash = h}) = 1}
                st == [photo |-> photo, count |-> 0, used |-> << >>, err |-> None]
                nx == UpdateSimple(st, results, simple)
                kept == IF \E r \in nx.photo : r.dt_import = t THEN I1
                        ELSE {b \in I1 : b.import_date # t}
                up1 == [UpIdle EXCEPT !.gen = "capture_meta", !.backend = backend,
                                      !.local = local, !.import_date = t,
                                      !.start = Snapshot]
            IN  /\ now' = t
                /\ IF backend = "sqlite"
                   THEN /\ up' = [up1 EXCEPT !.err = "OperationalError"]
                        /\ committed' = [photo |-> photo, import |-> I1]
                        /\ photo' = photo /\ import' = I1
                        /\ out' = Append(out, [ev |-> "error", exc |-> "OperationalError"])
                        /\ pc' = "crashed"
                   ELSE IF nx.err # None
                   THEN /\ up' = [up1 EXCEPT !.err = nx.err, !.used = nx.used]
                        /\ committed' = [photo |-> photo, import |-> I1]
                        /\ photo' = photo /\ import' = I1
                        /\ out' = Append(out, [ev |-> "error", exc |-> nx.err])
                        /\ pc' = "crashed"
                   ELSE /\ up' = [up1 EXCEPT !.count = nx.count, !.used = nx.used]
                        /\ photo' = nx.photo /\ import' = kept
                        /\ committed' = [photo |-> nx.photo, import |-> kept]
                        /\ out' = Append(out, [ev |-> "rows_affected", n |-> nx.count])
                        /\ pc' = "done"
    /\ UNCHANGED <<hash, tag, fs, dirs, rename, rn>>

NextUpdate ==
    \/ hash_files
    \/ update_db_begin
    \/ update_db_row
    \/ update_db_end
    \/ capture_meta_update

SpecUpdate == InitUpdate /\ [][NextUpdate]_vars

-----------------------------------------------------------------------------
(* The scan pipeline: scan_image.py, capture_meta without --update          *)

MaxFiles == 3
MaxChunk == 2
MaxThreads == 2

\* Files a scanned folder can hold: two copies of one photo, another photo,
\* and a file that is not an image. No file is an SQLite journal.
ScanPool ==
    { File(InBase(<<"A", "/", "i", ".", "j">>), "x"),
      File(InBase(<<"B", "/", "i", ".", "j">>), "x"),
      File(InBase(<<"c", ".", "j">>), "z"),
      File(InBase(<<"n", ".", "t">>), "n") }

\* The store before the scan: empty, or holding c.j from a scan at second 1
\* that stored full paths, or from one that stored local paths; that scan
\* read the MakerNote tags, the scans of the model do not.
InitScan ==
    \E F \in SUBSET ScanPool, known \in {"none", "full", "local"} :
        /\ F # {} /\ Cardinality(F) <= MaxFiles
        /\ LET P == CASE known = "full" ->
                           {PhotoRow(InBase(<<"c", ".", "j">>), <<"c", ".", "j">>, "z", 1)}
                      [] known = "local" ->
                           {PhotoRow(<<"c", ".", "j">>, <<"c", ".", "j">>, "z", 1)}
                      [] OTHER -> {}
               I == IF known = "none" THEN {}
                    ELSE {ImportRow(1, Base, known = "local", "import")}
           IN  /\ photo = P /\ import = I /\ committed = [photo |-> P, import |-> I]
               /\ hash = {r.md5hash : r \in P}
               /\ tag = {TagRow(r.md5hash, [exif |-> r.md5hash, details |-> TRUE], 1, 1) :
                             r \in P}
        /\ fs = F /\ dirs = {} /\ now = 1 /\ pc = "idle" /\ rename = << >>
        /\ rn = RnIdle /\ up = UpIdle /\ out = << >>

\* imghdr.what: the image type of a file, None for a file that is no image.
ftype(f) == IF f.data = "n" THEN None ELSE "jpeg"

\* read_file: type, EXIF tags, size and checksum of one file. The checksum
\* is a function of the content, the tags of the content and of whether the
\* MakerNote tags are read; a file that is no image gets neither.
read_file(f, maker) ==
    [root |-> dirname(f.path), fname |-> basename(f.path), ftype |-> ftype(f),
     hash |-> IF ftype(f) = None THEN None ELSE f.data,
     tags |-> IF ftype(f) = None THEN None ELSE [exif |-> f.data, details |-> maker],
     width |-> IF ftype(f) = None THEN None ELSE 1,
     height |-> IF ftype(f) = None THEN None ELSE 1]

\* Slices of one file more than asked for.
RECURSIVE Slices_long(_, _)
Slices_long(full_list, n) ==
    IF Len(full_list) <= n THEN <<full_list>>
    ELSE <<SubSeq(full_list, 1, n + 1)>> \o
         (IF Len(full_list) = n + 1 THEN << >>
          ELSE Slices_long(SubSeq(full_list, n + 2, Len(full_list)), n))

\* chunks(full_list, n)
RECURSIVE Slices(_, _)
Slices(full_list, n) ==
    IF Len(full_list) <= n THEN <<full_list>>
    ELSE <<SubSeq(full_list, 1, n)>> \o Slices(SubSeq(full_list, n + 1, Len(full_list)), n)

chunks(full_list, n) ==
    IF 0 < n /\ n < Len(full_list) THEN Slices(full_list, n) ELSE <<full_list>>

\* process_results: one row per result that is an image, in the order of
\* the results.
RECURSIVE process_results(_, _, _, _)
process_results(results, path, import_date, local) ==
    IF results = << >> THEN << >>
    ELSE LET r == Head(results)
             full == join(r.root, r.fname)
             ins_path == IF local THEN local_path(full, path) ELSE full
             rest == process_results(Tail(results), path, import_date, local)
         IN  IF r.ftype = None THEN rest
             ELSE <<[path |-> ins_path, fname |-> r.fname, md5hash |-> r.hash,
                     dt_import |-> import_date, tags |-> r.tags,
                     width |-> r.width, height |-> r.height]>> \o rest

\* write_results without update_path: INSERT OR IGNORE into hash, photo and
\* tag, row after row; a row whose key is taken is left out.
RECURSIVE write_results(_, _)
write_results(st, results) ==
    IF results = << >> THEN st
    ELSE LET x == Head(results)
             newphoto == ~ \E r \in st.photo : r.path = x.path
             newtag == ~ \E g \in st.tag : g.md5hash = x.md5hash
             nx == [st EXCEPT
                      !.hash = @ \cup {x.md5hash},
                      !.photo = IF newphoto
                                THEN @ \cup {PhotoRow(x.path, x.fname, x.md5hash, x.dt_import)}
                                ELSE @,
                      !.rows_affected = IF newphoto THEN @ + 1 ELSE @,
                      !.tag = IF newtag
                              THEN @ \cup {TagRow(x.md5hash, x.tags, x.width, x.height)}
                              ELSE @]
         IN  write_results(nx, Tail(results))

\* capture_meta, lines 412-459: the batch row is inserted and committed, the
\* folder is walked, the files already in the store are dropped and the rest
\* is cut into chunks. all_files is a set: its order is any order.
capture_meta_begin ==
    /\ pc = "idle"
    /\ \E multi \in BOOLEAN, chunk_size \in 0..MaxChunk, local \in BOOLEAN,
          skip_check \in BOOLEAN, t \in {now, now + 1} :
        LET I1 == InsertImport(import, ImportRow(t, Base, local, "import"))
            found == {f \in fs : IsUnder(f.path, Base)}
            all_files == IF skip_check THEN found
                         ELSE {f \in found : f.path \notin get_existing(photo, I1)}
        IN  \E inputs \in Perms(all_files) :
            LET n == IF chunk_size = 0 THEN Len(inputs) ELSE chunk_size
            IN  /\ now' = t
                /\ import' = I1
                /\ committed' = [photo |-> photo, import |-> I1]
                /\ up' = [gen |-> "capture_meta", multi |-> multi, local |-> local,
                          skip_check |-> skip_check, import_date |-> t, start |-> Snapshot,
                          inputs |-> inputs, chunk_size |-> n, chunked |-> chunks(inputs, n),
                          k |-> 0, status |-> << >>, results |-> << >>, photo_rows |-> 0,
                          err |-> None]
    /\ pc' = "chunk"
    /\ UNCHANGED <<photo, hash, tag, fs, dirs, rename, rn, out>>

\* for chunk in chunked: the next chunk, if there is one and it is not empty.
scan_next_chunk ==
    /\ pc = "chunk"
    /\ IF up.k = Len(up.chunked) \/ up.chunked[up.k + 1] = << >>
       THEN pc' = "end" /\ up' = up
       ELSE /\ up' = [up EXCEPT !.k = @ + 1,
                                !.status = [i \in 1..Len(up.chunked[up.k + 1]) |-> "queued"],
                                !.results = [i \in 1..Len(up.chunked[up.k + 1]) |-> None]]
            /\ pc' = "read"
    /\ UNCHANGED <<photo, import, hash, tag, committed, fs, dirs, now, rename, rn, out>>

\* The number of read_file calls that can be under way at once: the pool's
\* processes with multi, the script itself without.
Workers(multi) == IF multi THEN MaxThreads ELSE 1

\* A file of the chunk is handed to read_file, in the order of the chunk.
scan_dispatch ==
    /\ pc = "read"
    /\ \E i \in 1..Len(up.status) :
        /\ up.status[i] = "queued"
        /\ \A j \in 1..(i - 1) : up.status[j] # "queued"
        /\ Cardinality({j \in 1..Len(up.status) : up.status[j] = "running"})
               < Workers(up.multi)
        /\ up' = [up EXCEPT !.status[i] = "running"]
        /\ out' = Append(out, [ev |-> "dispatch", chunk |-> up.k,
                               file |-> up.chunked[up.k][i].path])
    /\ UNCHANGED <<photo, import, hash, tag, committed, fs, dirs, now, pc, rename, rn>>

\* A read_file call returns its result.
scan_return ==
    /\ pc = "read"
    /\ \E i \in 1..Len(up.status) :
        /\ up.status[i] = "running"
        /\ up' = [up EXCEPT !.status[i] = "returned",
                            !.results[i] = read_file(up.chunked[up.k][i], FALSE)]
        /\ out' = Append(out, [ev |-> "return", chunk |-> up.k,
                               file |-> up.chunked[up.k][i].path])
    /\ UNCHANGED <<photo, import, hash, tag, committed, fs, dirs, now, pc, rename, rn>>

\* The full paths of the results that process_results keeps.
RECURSIVE ImagePaths(_)
ImagePaths(results) ==
    IF results = << >> THEN {}
    ELSE (IF Head(results).ftype = None THEN {}
          ELSE {join(Head(results).root, Head(results).fname)})
         \cup ImagePaths(Tail(results))

\* A scan loop that goes on to the write as soon as one result is in.
AllReturned_any(status) == \E i \in 1..Len(status) : status[i] = "returned"

\* pool.starmap, and the for loop without multi, give the results when every
\* file of the chunk has been read.
AllReturned(status) == \A i \in 1..Len(status) : status[i] = "returned"

\* The results that are in, in the order of the chunk.
RECURSIVE Returned(_, _)
Returned(status, results) ==
    IF status = << >> THEN << >>
    ELSE IF Head(status) = "returned"
    THEN <<Head(results)>> \o Returned(Tail(status), Tail(results))
    ELSE Returned(Tail(status), Tail(results))

\* Lines 492-504: process_results and write_results for the chunk, ending
\* with write_results' commit.
scan_write ==
    /\ pc = "read"
    /\ AllReturned(up.status)
    /\ LET processed == process_results(Returned(up.status, up.results), Base,
                                        up.import_date, up.local)
           st == [photo |-> photo, hash |-> hash, tag |-> tag, rows_affected |-> 0]
           nx == write_results(st, processed)
       IN  /\ photo' = nx.photo /\ hash' = nx.hash /\ tag' = nx.tag
           /\ committed' = [photo |-> nx.photo, import |-> import]
           /\ up' = [up EXCEPT !.photo_rows = @ + nx.rows_affected]
           /\ out' = Append(out, [ev |-> "write", chunk |-> up.k,
                                  paths |-> {processed[i].path : i \in 1..Len(processed)},
                                  full |-> ImagePaths(Returned(up.status, up.results)),
                                  order |-> [i \in 1..Len(processed) |->
                                               [root |-> dirname(processed[i].path),
                                                fname |-> processed[i].fname]]])
    /\ pc' = "chunk"
    /\ UNCHANGED <<import, fs, dirs, now, rename, rn>>

\* Lines 527-534: the batch row goes when no photo carries its date.
capture_meta_end ==
    /\ pc = "end"
    /\ IF \E r \in photo : r.dt_import = up.import_date
       THEN UNCHANGED <<import, committed>>
       ELSE /\ import' = {b \in import : b.import_date # up.import_date}
            /\ committed' = [photo |-> photo, import |-> import']
    /\ pc' = "done"
    /\ UNCHANGED <<photo, hash, tag, fs, dirs, now, rename, rn, up, out>>

\* A handler that swallows the interrupt: the loop is left and capture_meta
\* goes on to its end.
on_interrupt_swallow == [pc |-> "end", err |-> None]

\* Lines 505-507: except KeyboardInterrupt: print, raise. capture_meta ends
\* with the exception.
on_interrupt == [pc |-> "interrupted", err |-> "KeyboardInterrupt"]

\* Ctrl-C while the scan loop runs: between chunks, while files are read, or
\* inside write_results before its commit, whose inserts are then lost with
\* the connection. The store is as the last commit left it.
scan_interrupt ==
    /\ pc \in {"chunk", "read"}
    /\ up' = [up EXCEPT !.err = on_interrupt.err]
    /\ out' = Append(out, [ev |-> "error", exc |-> "KeyboardInterrupt", chunk |-> up.k])
    /\ pc' = on_interrupt.pc
    /\ UNCHANGED <<photo, import, hash, tag, committed, fs, dirs, now, rename, rn>>

NextScan ==
    \/ capture_meta_begin
    \/ scan_interrupt
    \/ scan_next_chunk
    \/ scan_dispatch
    \/ scan_return
    \/ scan_write
    \/ capture_meta_end

SpecScan == InitScan /\ [][NextScan]_vars

-----------------------------------------------------------------------------
(* The rename workflow: properties                                         *)

\* Whether the committed store or the filesystem differs from what the run
\* found when it started.
Changed ==
    \/ committed.photo # rn.start.photo \/ committed.import # rn.start.import
    \/ photo # rn.start.photo \/ import # rn.start.import
    \/ fs # rn.start.fs \/ dirs # rn.start.dirs

\* C2: no two photo rows have the same path, and no rename run issues an
\* update that gives a record a path another record holds (the store answers
\* such an update with IntegrityError).
C2_PathUnique ==
    /\ \A r, q \in photo : r.path = q.path => r = q
    /\ \A r, q \in committed.photo : r.path = q.path => r = q
    /\ rn.err # "IntegrityError"

\* C3: when the move of a plan entry has succeeded, the committed store holds
\* the entry's record with the new path, its basename and the current batch.
C3_MovedIsCommitted ==
    (rn.gen = "pkg" /\ rn.last.outcome = "moved") =>
        \E r \in committed.photo :
            /\ r.md5hash = rn.last.row.md5hash
            /\ r.path = rn.last.row.new_base \o <<"/">> \o rn.last.row.new_path
            /\ r.fname = basename(rn.last.row.new_path)
            /\ r.dt_import = rn.last.import_date

\* C4: right after a failed move of a plan entry, the store (as seen and as
\* committed) and the files on disk are what they were before the attempt,
\* and the last line of output reports the failure for that entry.
C4_FailedMoveUntouched ==
    (pc = "move" /\ rn.last.outcome \in {"mkdir_fails", "rename_fails"}) =>
        /\ photo = rn.last.before.photo
        /\ committed = rn.last.before.committed
        /\ fs = rn.last.before.fs
        /\ out # << >>
        /\ out[Len(out)] = [ev |-> "cannot_rename", old |-> old_fullpath(rn.last.row),
                            new |-> new_fullpath(rn.last.row, rn.base_path)]

\* C4 witness: the move of an entry whose file is on disk has failed.
C4_Witness ==
    /\ pc = "move" /\ rn.last.outcome = "rename_fails"
    /\ \E f \in fs : f.path = old_fullpath(rn.last.row)
    /\ rn.last.row.new_path # rn.last.row.old_path

\* C5: a dry run of the rename workflow, whatever the other flags, ends with
\* store and filesystem as it found them and with the plan emitted.
C5_DryRunChangesNothing ==
    (rn.gen # None /\ rn.test # None) =>
        /\ ~ Changed
        /\ out = <<[ev |-> "plan", to |-> rn.test, plan |-> rn.dict_list]>>

\* C6: in a run that is not a dry run, store and filesystem change only after
\* an answer starting with 'y' or 'Y'; after any other answer the run has
\* ended with both unchanged.
C6_ConfirmationGate ==
    (rn.gen # None /\ rn.test = None) =>
        LET yes == rn.answered /\ rn.ask # << >> /\ rn.ask[1] \in {"y", "Y"}
        IN  /\ Changed => yes
            /\ (rn.answered /\ ~ yes) => (pc = "done" /\ ~ Changed)

\* C6 witness: an answer that does not start with 'y' has ended a run.
C6_Witness ==
    /\ rn.gen = "pkg" /\ rn.test = None /\ pc = "done"
    /\ rn.answered /\ rn.ask = <<" ", "y">>

-----------------------------------------------------------------------------
(* Reconciliation: properties                                              *)

\* A reconciliation run has ended, by its last statement or by an exception.
RunEnded == up.gen # None /\ pc \in {"done", "crashed"}

\* The files on disk that carry hash h (a reconciliation run moves no file).
Carrying(h) == {f \in fs : f.data = h}

\* C7: after a reconciliation run, a record whose hash no other record and
\* exactly one file carries, that file being at another path P' than the
\* recorded one, has path P' and the basename of P' as filename, and the run
\* has counted one update.
C7_RoundTrip ==
    RunEnded =>
        \A r \in up.start.photo :
            ( /\ Cardinality({q \in up.start.photo : q.md5hash = r.md5hash}) = 1
              /\ Cardinality(Carrying(r.md5hash)) = 1
              /\ \A f \in Carrying(r.md5hash) : f.path # r.path )
            => /\ \E q \in committed.photo, f \in Carrying(r.md5hash) :
                    /\ q.md5hash = r.md5hash
                    /\ q.path = IF up.local THEN local_path(f.path, Base) ELSE f.path
                    /\ q.fname = basename(f.path)
               /\ up.count = 1

\* C8: within one reconciliation run no fresh file path is used for two
\* updates of records.
C8_FreshUsedOnce ==
    \A i, k \in 1..Len(up.used) : i # k => up.used[i].fresh # up.used[k].fresh

\* C8 witness: two records with the same hash have each been given a fresh
\* path by update_db.
C8_Witness ==
    /\ up.gen = "update_db" /\ pc = "done" /\ Len(up.used) >= 2
    /\ \E i, k \in 1..Len(up.used) :
          i # k /\ up.used[i].md5hash = up.used[k].md5hash /\ up.used[i].old # up.used[k].old

\* C9: when the records at A/i.j and B/i.j share a hash and their files are
\* now at A2/i.j and B2/i.j, a reconciliation run gives the first record the
\* path A2/i.j and the second the path B2/i.j, whatever the scan order.
C9_NearestPath ==
    ( /\ RunEnded
      /\ \E r, q \in up.start.photo :
            /\ r.path = InBase(<<"A", "/", "i", ".", "j">>)
            /\ q.path = InBase(<<"B", "/", "i", ".", "j">>)
            /\ r.md5hash = q.md5hash
            /\ {f.path : f \in Carrying(r.md5hash)} =
                   {InBase(<<"A", "2", "/", "i", ".", "j">>),
                    InBase(<<"B", "2", "/", "i", ".", "j">>)} )
    => /\ \E k \in 1..Len(up.used) :
            /\ up.used[k].old = InBase(<<"A", "/", "i", ".", "j">>)
            /\ up.used[k].fresh = InBase(<<"A", "2", "/", "i", ".", "j">>)
       /\ \E k \in 1..Len(up.used) :
            /\ up.used[k].old = InBase(<<"B", "/", "i", ".", "j">>)
            /\ up.used[k].fresh = InBase(<<"B", "2", "/", "i", ".", "j">>)
       /\ pc = "done"

\* C10: after a reconciliation run every record whose hash no scanned file
\* carries is in the store as it was, and the store holds as many records as
\* before the run.
C10_UnmatchedUntouched ==
    RunEnded =>
        /\ \A r \in up.start.photo : Carrying(r.md5hash) = {} => r \in committed.photo
        /\ Cardinality(committed.photo) = Cardinality(up.start.photo)

-----------------------------------------------------------------------------
(* The Collision Resolver: further properties                              *)

\* The plan as it was handed to the first run of the resolver.
Proposed == out[1].plan

\* The entries of plan t that share their new_path with entry i, i included.
Group(t, i) == {k \in 1..Len(t) : t[k].new_path = t[i].new_path}

\* C11: a second run of the Collision Resolver, on the output of the first,
\* changes no entry's new_path.
C11_Idempotent ==
    pc = "resolved_again" =>
        \A i \in 1..Len(rename) : rename[i].new_path = out[2].plan[i].new_path

\* C12: in every collision group the ranks are 1..k in ascending order of
\* old_path, and for every permutation of the plan each entry gets the rank
\* and the final new_path it gets in this order. Every plan is a permutation
\* of the plan inserted in ascending order of old_path, so the permutations
\* are compared with that one.
C12_RankByOldPath ==
    pc = "resolved" =>
        LET t == Proposed
        IN  /\ \A i \in 1..Len(t) :
                  {row_number(t, k) : k \in Group(t, i)} = 1..Cardinality(Group(t, i))
            /\ \A i \in 1..Len(t) : \A k \in Group(t, i) :
                  row_number(t, i) < row_number(t, k)
                      <=> TextLess(t[i].old_path, t[k].old_path)
            /\ (\A i \in 1..(Len(t) - 1) : TextLess(t[i].old_path, t[i + 1].old_path)) =>
               \A perm \in Perms(1..Len(t)) :
                  LET tp == [j \in 1..Len(t) |-> t[perm[j]]]
                      rp == ResolveCollisions(tp)
                  IN  \A j \in 1..Len(t) :
                         /\ row_number(tp, j) = row_number(t, perm[j])
                         /\ rp[j].new_path = rename[perm[j]].new_path

\* C12 witness: a collision group whose members were inserted in another
\* order than that of their old paths has been resolved.
C12_Witness ==
    /\ pc = "resolved"
    /\ \E i, k \in 1..Len(Proposed) :
          /\ i < k /\ Proposed[i].new_path = Proposed[k].new_path
          /\ TextLess(Proposed[k].old_path, Proposed[i].old_path)
          /\ rename[i].new_path # rename[k].new_path

\* The width of the suffixes of plan t: the digits of its largest rank.
PadWidth(t) ==
    LET ranks == {row_number(t, i) : i \in 1..Len(t)}
    IN  Len(Str(CHOOSE m \in ranks : \A r \in ranks : r <= m))

\* C13: every entry of a collision group leaves the resolver with '-' and its
\* own rank, zero-padded to the digits of the largest rank of the plan,
\* spliced before the extension of its proposed new_path.
C13_SuffixIsPaddedRank ==
    pc = "resolved" =>
        \A i \in 1..Len(Proposed) :
            Proposed[i].new_path \in dups(Proposed) =>
                rename[i].new_path =
                    splitext0(Proposed[i].new_path) \o <<"-">>
                    \o rjust0(Str(row_number(Proposed, i)), PadWidth(Proposed))
                    \o splitext1(Proposed[i].new_path)

\* C14: an entry whose proposed new_path no other entry shares leaves the
\* resolver with that new_path.
C14_SingletonUntouched ==
    pc = "resolved" =>
        \A i \in 1..Len(Proposed) :
            Group(Proposed, i) = {i} => rename[i].new_path = Proposed[i].new_path

\* C14 witness: a plan with a collision group and an entry outside it that
\* has the hash of a member of the group has been resolved.
C14_Witness ==
    /\ pc = "resolved"
    /\ \E i, k \in 1..Len(Proposed) :
          /\ Group(Proposed, i) = {i}
          /\ Cardinality(Group(Proposed, k)) > 1
          /\ Proposed[i].md5hash = Proposed[k].md5hash
          /\ rename[k].new_path # Proposed[k].new_path

-----------------------------------------------------------------------------
(* The Path Planner: properties                                            *)

\* C17: the planned name is the rendered template followed by the lower-cased
\* extension of the old name, or the rendered template alone when the
\* template ends in an extension of its own; the template
\* {year}/{month:02}_{old_name} for a record of 2021-06 named IMG_001.jpg
\* gives 2021/06_IMG_001.jpg.
C17_TemplateName ==
    (pc = "named" /\ out[1].out_format # << >>) =>
        LET e  == out[1]
            f  == Format(e.out_format, e.vd)
        IN  /\ e.new_name.err = None
            /\ e.new_name.text =
                  IF splitext1(e.out_format) # << >> THEN f.text
                  ELSE f.text \o LowerStr(splitext1(e.vd.old_name))
            /\ ( /\ e.out_format = <<"{", "y", "e", "a", "r", "}", "/",
                                     "{", "m", "o", "n", "t", "h", ":", "0", "2", "}", "_",
                                     "{", "o", "l", "d", "_", "n", "a", "m", "e", "}">>
                 /\ e.vd.month = 6
                 /\ e.vd.old_name = <<"I", "M", "G", "_", "0", "0", "1", ".", "j", "p", "g">> )
               => e.new_name.text = <<"2", "0", "2", "1", "/", "0", "6", "_",
                                      "I", "M", "G", "_", "0", "0", "1", ".", "j", "p", "g">>

-----------------------------------------------------------------------------
(* The rename workflow: further properties                                 *)

\* write_new has gone through every row of the base rn.base_path and has
\* passed the check of the running count that follows them.
BaseEnded ==
    /\ rn.gen = "pkg" /\ rn.base_path # << >> /\ rn.i > Len(rn.rows)
    /\ \/ pc \in {"base", "rm_empty", "done"}
       \/ pc = "crashed" /\ rn.err = "ProgrammingError"

\* The number of records updated for the base that has just ended.
UpdatedForBase == rn.updated - rn.updated0

\* C15: when write_new has processed every entry of a destination base and
\* has updated no record for it, the batch row of that base is no longer in
\* the import table; when it has updated at least one, the row is there.
C15_EmptyBatchRemoved ==
    BaseEnded =>
        /\ UpdatedForBase = 0 => ~ \E b \in import : b.import_date = rn.import_date
        /\ UpdatedForBase > 0 => \E b \in import : b.import_date = rn.import_date

\* C18: in a rename run the failure of the move or of the store update for
\* one record does not end the run: the run is never dead of that record's
\* failure with records of the batch still to process.
C18_FailureDoesNotAbort ==
    (rn.gen = "pkg" /\ rn.last.outcome # None /\ pc = "crashed"
        /\ rn.err \in {"OSError", "IntegrityError"}) => rn.i > Len(rn.rows)

-----------------------------------------------------------------------------
(* Reconciliation: further properties                                      *)

\* C19: a file that cannot be opened or read during the reconciliation scan
\* is linked to no record, and every other file under the scanned path is
\* hashed all the same.
C19_UnreadableSkipped ==
    (up.gen = "update_db" /\ pc # "idle") =>
        /\ \A k \in 1..Len(up.used) : up.used[k].fresh \notin up.failed
        /\ \A f \in up.start.fs : (IsUnder(f.path, Base) /\ f.path \notin up.failed) =>
              \E k \in 1..Len(up.hashed) :
                  up.hashed[k].full_path = f.path /\ up.hashed[k].md5 = f.data

-----------------------------------------------------------------------------
(* The scan pipeline: properties                                           *)

\* The paths of the files of chunk c of the running scan.
ChunkFiles(c) == {up.chunked[c][i].path : i \in 1..Len(up.chunked[c])}

\* C20: the scan handles one chunk at a time: a chunk is written to the
\* store only after every read of that chunk has returned, and no file of
\* the next chunk is handed to a reader before the write of the chunk before
\* it is committed.
C20_OneChunkAtATime ==
    (up.gen = "capture_meta" /\ pc \in {"chunk", "read", "end", "done"}) =>
        \A i \in 1..Len(out) :
            /\ out[i].ev = "write" =>
                  \A f \in ChunkFiles(out[i].chunk) :
                      \E j \in 1..(i - 1) : out[j].ev = "return" /\ out[j].file = f
            /\ (out[i].ev = "dispatch" /\ out[i].chunk > 1) =>
                  \E j \in 1..(i - 1) :
                      /\ out[j].ev = "write" /\ out[j].chunk = out[i].chunk - 1
                      /\ out[j].paths \subseteq {r.path : r \in committed.photo}

\* A scan with multi whose first chunk has two files and whose second chunk
\* has been written.
C20_Witness ==
    /\ up.gen = "capture_meta" /\ pc \in {"chunk", "end", "done"}
    /\ up.multi /\ Len(up.chunked) >= 2 /\ Len(up.chunked[1]) >= 2
    /\ \E i \in 1..Len(out) : out[i].ev = "write" /\ out[i].chunk = 2

\* An interrupt has been raised in the scan loop.
Interrupted ==
    /\ up.gen = "capture_meta"
    /\ \E i \in 1..Len(out) : out[i].ev = "error" /\ out[i].exc = "KeyboardInterrupt"

\* C21: an interrupt in the scan loop ends the loop, so that nothing is
\* dispatched after it, reaches the caller of capture_meta as the exception
\* it is, and leaves in the store every chunk written before it.
C21_InterruptStopsScan ==
    Interrupted =>
        /\ pc = "interrupted" /\ up.err = "KeyboardInterrupt"
        /\ out[Len(out)].ev = "error"
        /\ \A i \in 1..Len(out) : out[i].ev = "write" =>
              /\ out[i].paths \subseteq {r.path : r \in committed.photo}
              /\ out[i].paths \subseteq {r.path : r \in photo}

\* An interrupt after the first chunk of several has been written and a file
\* of the second has been handed out.
C21_Witness ==
    /\ Interrupted /\ Len(up.chunked) >= 2 /\ up.k = 2
    /\ \E i \in 1..Len(out) : out[i].ev = "write" /\ out[i].paths # {}
    /\ \E i \in 1..Len(out) : out[i].ev = "dispatch" /\ out[i].chunk = 2

\* C22: the results of a chunk are persisted in the order of (directory,
\* file name), whatever the order in which the reads returned and whatever
\* the order in which the candidate files were listed.
C22_PersistedInNameOrder ==
    up.gen = "capture_meta" =>
        \A e \in 1..Len(out) : out[e].ev = "write" =>
            \A i, j \in 1..Len(out[e].order) : i < j =>
                LET a == out[e].order[i]
                    b == out[e].order[j]
                IN  \/ TextLess(a.root, b.root)
                    \/ a.root = b.root /\ TextLess(a.fname, b.fname)

\* The chunks of the running scan, one after the other.
RECURSIVE Flatten(_)
Flatten(ss) == IF ss = << >> THEN << >> ELSE Head(ss) \o Flatten(Tail(ss))

Recorded ==
    {IF ImportOf(up.start.import, r).local
     THEN ImportOf(up.start.import, r).base_path \o <<"/">> \o r.path
     ELSE r.path : r \in up.start.photo}

C25_TagRowKept == [][\A g \in tag : g \in tag']_vars

-----------------------------------------------------------------------------
(* The rename workflow: the files and the plan                             *)

\* The number of files in F that hold content d.
Copies(F, d) == Cardinality({f \in F : f.data = d})

\* C26: the moves of a rename run destroy no content: as long as
\* delete_empty has not run, the disk holds every content as many times as
\* it did when the run began.
C26_NoContentDestroyed ==
    (rn.gen = "pkg" /\ ~ (pc = "done" /\ rn.rm_empty)) =>
        \A d \in {f.data : f \in rn.start.fs} : Copies(fs, d) = Copies(rn.start.fs, d)

\* C27: the new_path the plan of rename_files gives a record, which is what
\* a dry run emits for it, is the new_path under which a confirmed run moves
\* the record's file.
C27_DryRunShowsRealPath ==
    (rn.gen = "pkg" /\ rn.last.outcome = "moved") =>
        \A i \in 1..Len(rn.dict_list) :
            rn.dict_list[i].old_path = rn.last.row.old_path =>
                rn.dict_list[i].new_path = rn.last.row.new_path

-----------------------------------------------------------------------------
(* Reconciliation: batches and records                                     *)

\* C28: the import_date a run takes is that of no batch already in the
\* store, so that discarding the run's batch removes no earlier batch and,
\* through the cascade, no record.
C28_FreshBatchId ==
    (up.gen \in {"update_db", "capture_meta"} /\ up.import_date # 0) =>
        /\ \A b \in up.start.import : b.import_date # up.import_date
        /\ \A b \in up.start.import : b \in committed.import
        /\ \A r \in up.start.photo :
              \E q \in committed.photo : q.dt_import \in {r.dt_import, up.import_date}

\* The number of records in P that have hash h.
WithHash(P, h) == Cardinality({r \in P : r.md5hash = h})

-----------------------------------------------------------------------------
(* The prompt of a real rename run                                         *)

\* C29: a real run whose plan is not empty, be it of fewer than five
\* entries, gets to confirm_write's prompt and ends with a decision: it
\* never fails before the prompt.
C29_PromptAlwaysDecides ==
    (rn.gen = "pkg" /\ rn.test = None /\ Len(rn.dict_list) > 0) =>
        /\ rn.err # "ValueError"
        /\ pc \in {"done", "crashed"} => rn.answered

====
